---------------------------- MODULE Spec2Model ----------------------------
(***************************************************************************)
(* Model of v3/http_verifier.go: the HTTP verification proxy of pact-go.   *)
(*                                                                         *)
(* verifyProviderRaw assembles the middleware list, starts the reverse     *)
(* proxy, computes the state-setup URL, waits for the proxy port and calls *)
(* the verification engine.  While the engine runs, the proxy serves its   *)
(* requests, one goroutine per request, through the chain                  *)
(*   BeforeEachMiddleware, AfterEachMiddleware, stateHandlerMiddleware,    *)
(*   RequestFilter, reverse proxy.                                         *)
(*                                                                         *)
(* Time is counted in milliseconds.  URLs are token sequences              *)
(* <<text, port, text>> as fmt.Sprintf assembles them; the empty string is *)
(* the empty sequence.                                                     *)
(***************************************************************************)
EXTENDS Integers, Sequences, FiniteSets, TLC

VARIABLES
    request,        \* the VerifyRequest given to verifyProviderRaw
    clientTimeout,  \* v.ClientTimeout, in ms
    vpc,            \* position of verifyProviderRaw
    u,              \* result of url.Parse: "unset", "nil" or "url"
    m,              \* the middleware list, outermost first
    port,           \* port returned by proxy.HTTPReverseProxy
    err,            \* the variable err of verifyProviderRaw
    listening,      \* the proxy's listener accepts connections
    verificationRequest, \* the request constructed for the engine
    waiter,         \* waitForPort: [pc, elapsed, dials, live, message, text]
    portErr,        \* the result of waitForPort
    engine,         \* [calls, arg, verdict]: verificationRequest.verify's calls,
                    \* the request it was called on and what it returned
    result,         \* what verifyProviderRaw returned
    reqs            \* the exchanges served by the proxy

vars == <<request, clientTimeout, vpc, u, m, port, err, listening,
          verificationRequest, waiter, portErr, engine, result, reqs>>

\* the exchanges the proxy can have in flight, each served by its own goroutine
Slots == DOMAIN reqs

---------------------------------------------------------------------------
(* Bounds of the model *)

\* number of exchanges the proxy serves at the same time
MaxRequests == 1

\* the same number in the runs that look at concurrent exchanges (SpecServe)
MaxInFlight == 2

(* Program constants *)

\* http.StatusOK
StatusOK == 200
\* http.StatusInternalServerError
StatusInternalServerError == 500
\* 10 * time.Second, the default of ClientTimeout
DefaultClientTimeout == 10000
\* 50 * time.Millisecond, the poll interval of waitForPort
PollInterval == 50

providerStatesSetupPath == "/__setup/"

---------------------------------------------------------------------------
(* Inputs *)

EmptyString == <<>>

\* values of request.ProviderBaseURL: one that url.Parse accepts, one it rejects
GoodBaseURL == <<"http://provider:", 9000, "/api">>
BadBaseURL  == <<"http://[provider", 0, "">>
BaseURLs == {GoodBaseURL, BadBaseURL}

\* values of request.ProviderStatesSetupURL
LegacySetupURL == <<"http://provider:", 9000, "/legacy-setup">>
SetupURLs == {EmptyString, LegacySetupURL}

\* the keys request.StateHandlers can have
StateHandlerSets == {{}, {"A"}, {"A", "B"}}

\* values of v.ClientTimeout before validateConfig (0 is unset)
ClientTimeouts == {0, 100}

\* the same with timeouts below and at the poll interval (SpecWait)
WaitTimeouts == {0, 20, 50, 100}

\* ports the operating system hands to the proxy
FreePorts == {40001}

\* paths of the requests the proxy receives
Paths == {providerStatesSetupPath, "/users"}

\* bodies of the requests to the setup path; the first is not JSON
SetupBodies == {"not json", "{state:A}", "{state:B}"}

\* what the reverse proxy answers with (the provider's status, or its own)
UpstreamStatuses == {200, 404}

\* what a hook or a state handler returns
Outcomes == {"ok", "error"}

TimeoutError == "Expected server to start < timeout"
NoError == "nil"

---------------------------------------------------------------------------
(* Pure functions *)

\* url.Parse: "url" for a parsed URL, "nil" with an error otherwise
urlParse(raw) ==
    IF raw = GoodBaseURL THEN [u |-> "url", err |-> NoError]
                         ELSE [u |-> "nil", err |-> "parse error"]

\* BuildMiddleware with a slip: the after-hook is appended first
BuildMiddleware_AfterFirst(req) ==
    LET m0 == <<>>
        m1 == IF req.AfterEach THEN Append(m0, "after") ELSE m0
        m2 == IF req.BeforeEach THEN Append(m1, "before") ELSE m1
        m3 == IF Cardinality(req.StateHandlers) > 0 THEN Append(m2, "state") ELSE m2
        m4 == IF req.RequestFilter THEN Append(m3, "filter") ELSE m3
    IN  m4

\* BuildMiddleware with a slip: one state handler is not enough
BuildMiddleware_OffByOne(req) ==
    LET m0 == <<>>
        m1 == IF req.BeforeEach THEN Append(m0, "before") ELSE m0
        m2 == IF req.AfterEach THEN Append(m1, "after") ELSE m1
        m3 == IF Cardinality(req.StateHandlers) > 1 THEN Append(m2, "state") ELSE m2
        m4 == IF req.RequestFilter THEN Append(m3, "filter") ELSE m3
    IN  m4

\* the middleware list verifyProviderRaw appends to
BuildMiddleware(req) ==
    LET m0 == <<>>
        m1 == IF req.BeforeEach THEN Append(m0, "before") ELSE m0
        m2 == IF req.AfterEach THEN Append(m1, "after") ELSE m1
        m3 == IF Cardinality(req.StateHandlers) > 0 THEN Append(m2, "state") ELSE m2
        m4 == IF req.RequestFilter THEN Append(m3, "filter") ELSE m3
    IN  m4

\* fmt.Sprintf("http://localhost:%d%s", port, providerStatesSetupPath)
ProxySetupURL(p) == <<"http://localhost:", p, providerStatesSetupPath>>

\* fmt.Sprintf("http://localhost:%d", port)
ProxyBaseURL(p) == <<"http://localhost:", p, "">>

\* ComputeSetupURL with a slip: || for &&
ComputeSetupURL_Or(req, p) ==
    IF req.ProviderStatesSetupURL = EmptyString \/ Cardinality(req.StateHandlers) > 0
    THEN ProxySetupURL(p)
    ELSE req.ProviderStatesSetupURL

\* ComputeSetupURL with a slip: the URL given is not looked at
ComputeSetupURL_HandlersOnly(req, p) ==
    IF Cardinality(req.StateHandlers) > 0
    THEN ProxySetupURL(p)
    ELSE req.ProviderStatesSetupURL

\* the setupURL computed by verifyProviderRaw
ComputeSetupURL(req, p) ==
    IF req.ProviderStatesSetupURL = EmptyString /\ Cardinality(req.StateHandlers) > 0
    THEN ProxySetupURL(p)
    ELSE req.ProviderStatesSetupURL

\* ConstructRequest with a slip: ProviderTags is filled from Tags
ConstructRequest_TagsTwice(req, p) ==
    [ProviderBaseURL        |-> ProxyBaseURL(p),
     PactURLs               |-> req.PactURLs,
     PactFiles              |-> req.PactFiles,
     PactDirs               |-> req.PactDirs,
     BrokerURL              |-> req.BrokerURL,
     Tags                   |-> req.Tags,
     BrokerUsername         |-> req.BrokerUsername,
     BrokerPassword         |-> req.BrokerPassword,
     BrokerToken            |-> req.BrokerToken,
     PublishVerificationResults |-> req.PublishVerificationResults,
     ProviderVersion        |-> req.ProviderVersion,
     Provider               |-> req.Provider,
     ProviderStatesSetupURL |-> ComputeSetupURL(req, p),
     ProviderTags           |-> req.Tags,
     FailIfNoPactsFound     |-> req.FailIfNoPactsFound]

\* the VerifyRequest constructed for the engine
ConstructRequest(req, p) ==
    [ProviderBaseURL        |-> ProxyBaseURL(p),
     PactURLs               |-> req.PactURLs,
     PactFiles              |-> req.PactFiles,
     PactDirs               |-> req.PactDirs,
     BrokerURL              |-> req.BrokerURL,
     Tags                   |-> req.Tags,
     BrokerUsername         |-> req.BrokerUsername,
     BrokerPassword         |-> req.BrokerPassword,
     BrokerToken            |-> req.BrokerToken,
     PublishVerificationResults |-> req.PublishVerificationResults,
     ProviderVersion        |-> req.ProviderVersion,
     Provider               |-> req.Provider,
     ProviderStatesSetupURL |-> ComputeSetupURL(req, p),
     ProviderTags           |-> req.ProviderTags,
     FailIfNoPactsFound     |-> req.FailIfNoPactsFound]

\* json.Unmarshal of the body into stateHandlerAction
Unmarshal(body) ==
    CASE body = "{state:A}" -> [err |-> FALSE, State |-> "A"]
      [] body = "{state:B}" -> [err |-> FALSE, State |-> "B"]
      [] OTHER              -> [err |-> TRUE,  State |-> ""]

\* ResponseWriter.WriteHeader: the first status written is the response's
WriteHeader(status, code) == IF status = 0 THEN code ELSE status

\* an entry of an exchange's log
Ev(ev, who, arg, code) == [ev |-> ev, who |-> who, arg |-> arg, code |-> code]

---------------------------------------------------------------------------
(* Initial state *)

NoRequest == [ProviderBaseURL |-> EmptyString, ProviderStatesSetupURL |-> EmptyString,
              PactURLs |-> <<>>, PactFiles |-> <<>>, PactDirs |-> <<>>,
              BrokerURL |-> EmptyString, Tags |-> <<>>, BrokerUsername |-> "",
              BrokerPassword |-> "", BrokerToken |-> "",
              PublishVerificationResults |-> FALSE, ProviderVersion |-> "",
              Provider |-> "", ProviderTags |-> <<>>,
              FailIfNoPactsFound |-> FALSE]

IdleExchange == [pc |-> "idle", path |-> "", body |-> "", pos |-> 0,
                 status |-> 0, log |-> <<>>, inFlight |-> {}]

IdleWaiter == [pc |-> "idle", elapsed |-> 0, dials |-> 0, live |-> FALSE,
               message |-> <<>>, text |-> <<>>]

Requests ==
    [ProviderBaseURL        : BaseURLs,
     ProviderStatesSetupURL : SetupURLs,
     BeforeEach             : BOOLEAN,
     AfterEach              : BOOLEAN,
     StateHandlers          : StateHandlerSets,
     RequestFilter          : BOOLEAN,
     PactURLs               : {<<"http://broker/pacts/latest">>},
     PactFiles              : {<<"pacts/consumer-provider.json">>},
     PactDirs               : {<<"pacts">>},
     BrokerURL              : {<<"http://broker:", 80, "">>},
     Tags                   : {<<"prod">>},
     BrokerUsername         : {"user"},
     BrokerPassword         : {"secret"},
     BrokerToken            : {"token"},
     PublishVerificationResults : {TRUE},
     ProviderVersion        : {"1.0.0"},
     Provider               : {"provider"},
     ProviderTags           : {<<"main">>},
     FailIfNoPactsFound     : {TRUE}]

Init ==
    /\ request \in Requests
    /\ clientTimeout \in ClientTimeouts
    /\ vpc = "validateConfig"
    /\ u = "unset"
    /\ m = <<>>
    /\ port = 0
    /\ err = NoError
    /\ listening = FALSE
    /\ verificationRequest = NoRequest
    /\ waiter = IdleWaiter
    /\ portErr = NoError
    /\ engine = [calls |-> 0, arg |-> NoRequest, verdict |-> "none"]
    /\ result = "none"
    /\ reqs = [i \in 1..MaxRequests |-> IdleExchange]

---------------------------------------------------------------------------
(* verifyProviderRaw *)

Orchestrator == <<request, clientTimeout, vpc, u, m, port, err,
                  verificationRequest, waiter, portErr, engine, result>>

\* v.validateConfig(): ClientTimeout defaults to ten seconds; never fails
validateConfig ==
    /\ vpc = "validateConfig"
    /\ clientTimeout' = IF clientTimeout = 0 THEN DefaultClientTimeout ELSE clientTimeout
    /\ vpc' = "parse"
    /\ UNCHANGED <<request, u, m, port, err, listening, verificationRequest,
                   waiter, portErr, engine, result, reqs>>

\* u, err := url.Parse(request.ProviderBaseURL); err is not looked at
ParseBaseURL ==
    /\ vpc = "parse"
    /\ u' = urlParse(request.ProviderBaseURL).u
    /\ err' = urlParse(request.ProviderBaseURL).err
    /\ vpc' = "build"
    /\ UNCHANGED <<request, clientTimeout, m, port, listening, verificationRequest,
                   waiter, portErr, engine, result, reqs>>

\* m := []proxy.Middleware{} and the four conditional appends
AssembleMiddleware ==
    /\ vpc = "build"
    /\ m' = BuildMiddleware(request)
    /\ vpc' = "proxy"
    /\ UNCHANGED <<request, clientTimeout, u, port, err, listening,
                   verificationRequest, waiter, portErr, engine, result, reqs>>

\* proxy.Options reads u.Hostname(): with u nil the goroutine panics
OptionsNilURL ==
    /\ vpc = "proxy"
    /\ u = "nil"
    /\ vpc' = "panicked"
    /\ UNCHANGED <<request, clientTimeout, u, m, port, err, listening,
                   verificationRequest, waiter, portErr, engine, result, reqs>>

\* what proxy.HTTPReverseProxy(opts) returns: a bound port, or an error
HTTPReverseProxy(ok) ==
    IF ok THEN {[port |-> p, err |-> NoError] : p \in FreePorts}
          ELSE {[port |-> 0, err |-> "proxy error"]}

\* port, err := proxy.HTTPReverseProxy(opts); err is not looked at
StartProxy ==
    /\ vpc = "proxy"
    /\ u = "url"
    /\ \E ok \in BOOLEAN : \E r \in HTTPReverseProxy(ok) :
          /\ port' = r.port
          /\ err' = r.err
    /\ vpc' = "construct"
    /\ UNCHANGED <<request, clientTimeout, u, m, listening, verificationRequest,
                   waiter, portErr, engine, result, reqs>>

\* the proxy's server goroutine starts accepting connections on its port
ListenerUp ==
    /\ vpc \in {"construct", "waitForPort", "waiting", "checkPort", "verify"}
    /\ port /= 0
    /\ ~listening
    /\ listening' = TRUE
    /\ UNCHANGED <<Orchestrator, reqs>>

\* setupURL and the verificationRequest literal
ConstructVerificationRequest ==
    /\ vpc = "construct"
    /\ verificationRequest' = ConstructRequest(request, port)
    /\ vpc' = "waitForPort"
    /\ UNCHANGED <<request, clientTimeout, u, m, port, err, listening,
                   waiter, portErr, engine, result, reqs>>

---------------------------------------------------------------------------
(* waitForPort *)

\* net.Dial succeeds when the listener accepts connections on the port
Dial(p) == listening /\ p /= 0

\* fmt.Sprintf(`Timed out waiting for http verification proxy on port %d -
\* check for errors`, port)
PortMessage(p) ==
    <<"Timed out waiting for http verification proxy on port ", p,
      " - check for errors">>

\* fmt.Errorf("Expected server to start < %s. %s", timeoutDuration, message)
TimeoutText(timeout, message) ==
    <<"Expected server to start < ", timeout, ". ">> \o message

\* the call of the package's waitForPort: timeout := time.After(timeoutDuration).
\* waiter.elapsed is the time since the call, in milliseconds; waiter.live
\* records whether the listener was accepting connections at the call;
\* waiter.text is the text of the error returned
CallWaitForPort ==
    /\ vpc = "waitForPort"
    /\ waiter' = [pc |-> "select", elapsed |-> 0, dials |-> 0, live |-> Dial(port),
                  message |-> PortMessage(port), text |-> <<>>]
    /\ vpc' = "waiting"
    /\ UNCHANGED <<request, clientTimeout, u, m, port, err, listening,
                   verificationRequest, portErr, engine, result, reqs>>

\* waitForPort is a package variable: a test's replacement that reports success
CallWaitForPortReplaced ==
    /\ vpc = "waitForPort"
    /\ portErr' = NoError
    /\ vpc' = "checkPort"
    /\ UNCHANGED <<request, clientTimeout, u, m, port, err, listening,
                   verificationRequest, waiter, engine, result, reqs>>

\* SelectWakes with a slip: the pass's timer is armed with the timeout's duration
SelectWakes_Timeout(w, timeout) == timeout

\* the time at which the select entered at w.elapsed has a case ready: the
\* earlier of the timeout and the end of this pass's 50ms
SelectWakes(w, timeout) ==
    IF timeout <= w.elapsed + PollInterval THEN timeout ELSE w.elapsed + PollInterval

\* TimeoutReady with a slip: the timeout case can be taken at any time
TimeoutReady_Always(w, timeout) == TRUE

\* case <-timeout: is ready when the select wakes
TimeoutReady(w, timeout) == timeout <= SelectWakes(w, timeout)

\* case <-time.After(50 * time.Millisecond): is ready when the select wakes
PollReady(w, timeout) == w.elapsed + PollInterval <= SelectWakes(w, timeout)

\* case <-time.After(50 * time.Millisecond): dial; return nil on success
WaitPoll ==
    /\ vpc = "waiting"
    /\ waiter.pc = "select"
    /\ PollReady(waiter, clientTimeout)
    /\ LET polled == [waiter EXCEPT !.elapsed = SelectWakes(waiter, clientTimeout),
                                    !.dials = @ + 1]
       IN  IF Dial(port)
           THEN /\ portErr' = NoError
                /\ waiter' = [polled EXCEPT !.pc = "returned"]
                /\ vpc' = "checkPort"
           ELSE /\ waiter' = polled
                /\ UNCHANGED <<portErr, vpc>>
    /\ UNCHANGED <<request, clientTimeout, u, m, port, err, listening,
                   verificationRequest, engine, result, reqs>>

\* case <-timeout: return the timeout error
WaitTimeout ==
    /\ vpc = "waiting"
    /\ waiter.pc = "select"
    /\ TimeoutReady(waiter, clientTimeout)
    /\ portErr' = TimeoutError
    /\ waiter' = [waiter EXCEPT !.pc = "returned",
                                !.elapsed = SelectWakes(waiter, clientTimeout),
                                !.text = TimeoutText(clientTimeout, waiter.message)]
    /\ vpc' = "checkPort"
    /\ UNCHANGED <<request, clientTimeout, u, m, port, err, listening,
                   verificationRequest, engine, result, reqs>>

---------------------------------------------------------------------------
(* the end of verifyProviderRaw *)

\* if portErr != nil { log.Fatal(...) }: log.Fatal ends the process
PortErrFatal ==
    /\ vpc = "checkPort"
    /\ portErr /= NoError
    /\ vpc' = "exited"
    /\ waiter' = IdleWaiter
    /\ UNCHANGED <<request, clientTimeout, u, m, port, err, listening,
                   verificationRequest, portErr, engine, result, reqs>>

\* return verificationRequest.verify(writer): the call
InvokeEngine ==
    /\ vpc = "checkPort"
    /\ portErr = NoError
    /\ engine' = [engine EXCEPT !.calls = @ + 1, !.arg = verificationRequest]
    /\ vpc' = "verify"
    /\ waiter' = IdleWaiter
    /\ UNCHANGED <<request, clientTimeout, u, m, port, err, listening,
                   verificationRequest, portErr, result, reqs>>

\* what verificationRequest.verify can return: nil or the verification's error
Verdicts == {NoError, "verification failed"}

\* ReturnVerify with a slip: the engine's error is dropped
ReturnVerify_Nil(verdict) == NoError

\* return verificationRequest.verify(writer): the value returned for a verdict
ReturnVerify(verdict) == verdict

\* verificationRequest.verify returns, once every exchange it started is
\* complete, and verifyProviderRaw returns with it
EngineReturns ==
    /\ vpc = "verify"
    /\ \A i \in Slots : reqs[i].pc \in {"idle", "done"}
    /\ \E verdict \in Verdicts :
          /\ engine' = [engine EXCEPT !.verdict = verdict]
          /\ result' = ReturnVerify(verdict)
    /\ vpc' = "returned"
    /\ UNCHANGED <<request, clientTimeout, u, m, port, err, listening,
                   verificationRequest, waiter, portErr, reqs>>

---------------------------------------------------------------------------
(* The handlers of the chain.  An exchange x is at handler x.pos of the     *)
(* chain m \o <<"proxy">>; calling next.ServeHTTP moves it one position on. *)

Log(x, e) == [x EXCEPT !.log = Append(@, e)]

\* w.WriteHeader(code) by the handler who
Write(x, who, code) ==
    Log([x EXCEPT !.status = WriteHeader(@, code)], Ev("write", who, "", code))

\* next.ServeHTTP(w, r)
CallNext(x) == [x EXCEPT !.pos = @ + 1]

\* the handler at position pos of the chain
HandlerAt(pos) == IF pos <= Len(m) THEN m[pos] ELSE "proxy"

\* the innermost AfterEachMiddleware frame that encloses position pos, or 0
EnclosingAfter(pos) ==
    LET js == {j \in 1..Len(m) : j < pos /\ m[j] = "after"}
    IN  IF js = {} THEN 0 ELSE CHOOSE j \in js : \A k \in js : k <= j

\* the outermost handler has returned and the server completes the response:
\* a response with no status written is a 200
FinishResponse(x) ==
    [x EXCEPT !.pc = "done", !.pos = 0,
              !.status = IF @ = 0 THEN StatusOK ELSE @]

\* control returns from the handler at x.pos through the handlers that called
\* it, up to an AfterEachMiddleware (which has more to do) or to the server
Unwind(x) ==
    IF EnclosingAfter(x.pos) = 0 THEN FinishResponse(x)
    ELSE [x EXCEPT !.pc = "unwind", !.pos = EnclosingAfter(x.pos)]

\* the handler who returns without calling next
ReturnFrom(x, who) == Unwind(Log(x, Ev("return", who, "", 0)))

\* the hook is called and returns outcome
CallHook(x, who, outcome) == Log(x, Ev("hook", who, outcome, 0))

\* BeforeEachHandler with a slip: the hook's failure ends the request
BeforeEachHandler_ReturnOnError(x, outcome) ==
    IF x.path = providerStatesSetupPath
    THEN LET called == CallHook(x, "before", outcome)
         IN  IF outcome /= "ok"
             THEN ReturnFrom(Write(called, "before", StatusInternalServerError),
                             "before")
             ELSE CallNext(called)
    ELSE CallNext(x)

\* BeforeEachHandler with a slip: the path is not looked at
BeforeEachHandler_AnyPath(x, outcome) ==
    LET called == CallHook(x, "before", outcome)
    IN  IF outcome /= "ok"
        THEN CallNext(Write(called, "before", StatusInternalServerError))
        ELSE CallNext(called)

\* BeforeEachHandler with a slip: the hook is not called
BeforeEachHandler_SkipHook(x, outcome) == CallNext(x)

\* the handler BeforeEachMiddleware returns; the hook returns outcome
BeforeEachHandler(x, outcome) ==
    IF x.path = providerStatesSetupPath
    THEN LET called == CallHook(x, "before", outcome)
         IN  IF outcome /= "ok"
             THEN CallNext(Write(called, "before", StatusInternalServerError))
             ELSE CallNext(called)
    ELSE CallNext(x)

\* AfterEachHandler with a slip: the hook is called before next, not after
AfterEachHandler_HookFirst(x) == CallNext(CallHook(x, "after", "ok"))

\* the handler AfterEachMiddleware returns, up to its call of next
AfterEachHandler(x) == CallNext(x)

\* AfterEachRest with a slip: the path is not looked at
AfterEachRest_AnyPath(x, outcome) ==
    LET called == CallHook(x, "after", outcome)
    IN  IF outcome /= "ok"
        THEN Write(called, "after", StatusInternalServerError)
        ELSE called

\* the handler AfterEachMiddleware returns, after next has returned
AfterEachRest(x, outcome) ==
    IF x.path /= providerStatesSetupPath
    THEN LET called == CallHook(x, "after", outcome)
         IN  IF outcome /= "ok"
             THEN Write(called, "after", StatusInternalServerError)
             ELSE called
    ELSE x

\* CallStateHandler with a slip: the ProviderStateV3 passed has no Name
CallStateHandler_NoName(x, key, name, outcome) ==
    Log(x, Ev("handler", key, "", IF outcome = "ok" THEN 0 ELSE 1))

\* sf(ProviderStateV3{Name: state.State}) for sf = stateHandlers[key]
CallStateHandler(x, key, name, outcome) ==
    Log(x, Ev("handler", key, name, IF outcome = "ok" THEN 0 ELSE 1))

\* StateHandler with a slip: a state without a handler is answered as an error
StateHandler_UnmatchedIsError(x, stateHandlers, outcome) ==
    IF x.path = providerStatesSetupPath
    THEN LET state == Unmarshal(x.body)
         IN  IF state.err
             THEN ReturnFrom(Write(x, "state", StatusInternalServerError), "state")
             ELSE IF state.State \notin stateHandlers
                  THEN ReturnFrom(Write(x, "state", StatusInternalServerError), "state")
                  ELSE LET called == CallStateHandler(x, state.State, state.State, outcome)
                       IN  IF outcome /= "ok"
                           THEN ReturnFrom(Write(called, "state",
                                                 StatusInternalServerError), "state")
                           ELSE ReturnFrom(Write(called, "state", StatusOK), "state")
    ELSE CallNext(x)

\* StateHandler with a slip: the decode error is not looked at
StateHandler_IgnoreDecodeError(x, stateHandlers, outcome) ==
    IF x.path = providerStatesSetupPath
    THEN LET state == Unmarshal(x.body)
         IN  IF state.State \notin stateHandlers
             THEN ReturnFrom(Write(x, "state", StatusOK), "state")
             ELSE LET called == CallStateHandler(x, state.State, state.State, outcome)
                  IN  IF outcome /= "ok"
                      THEN ReturnFrom(Write(called, "state",
                                            StatusInternalServerError), "state")
                      ELSE ReturnFrom(Write(called, "state", StatusOK), "state")
    ELSE CallNext(x)

\* StateHandler with a slip: no return after the handler's failure
StateHandler_ContinueOnFailure(x, stateHandlers, outcome) ==
    IF x.path = providerStatesSetupPath
    THEN LET state == Unmarshal(x.body)
         IN  IF state.err
             THEN ReturnFrom(Write(x, "state", StatusInternalServerError), "state")
             ELSE IF state.State \notin stateHandlers
                  THEN ReturnFrom(Write(x, "state", StatusOK), "state")
                  ELSE LET called == CallStateHandler(x, state.State, state.State, outcome)
                       IN  IF outcome /= "ok"
                           THEN ReturnFrom(Write(Write(called, "state",
                                                       StatusInternalServerError),
                                                 "state", StatusOK), "state")
                           ELSE ReturnFrom(Write(called, "state", StatusOK), "state")
    ELSE CallNext(x)

\* the handler stateHandlerMiddleware returns; a handler called returns outcome
StateHandler(x, stateHandlers, outcome) ==
    IF x.path = providerStatesSetupPath
    THEN LET state == Unmarshal(x.body)
         IN  IF state.err
             THEN ReturnFrom(Write(x, "state", StatusInternalServerError), "state")
             ELSE IF state.State \notin stateHandlers
                  THEN ReturnFrom(Write(x, "state", StatusOK), "state")
                  ELSE LET called == CallStateHandler(x, state.State, state.State, outcome)
                       IN  IF outcome /= "ok"
                           THEN ReturnFrom(Write(called, "state",
                                                 StatusInternalServerError), "state")
                           ELSE ReturnFrom(Write(called, "state", StatusOK), "state")
    ELSE CallNext(x)

\* request.RequestFilter, the caller's middleware: it calls next, or answers itself
RequestFilter(x, callsNext) ==
    IF callsNext THEN CallNext(x)
                 ELSE ReturnFrom(Write(x, "filter", 403), "filter")

\* strings.HasPrefix(path, InternalRequestPathPrefix)
IsInternalPath(path) == path = providerStatesSetupPath

\* the reverse proxy, innermost: forwards to the provider unless the path is
\* internal, and writes the status it got
ReverseProxy(x, status) ==
    LET target == IF IsInternalPath(x.path) THEN "internal" ELSE "provider"
    IN  ReturnFrom(Write(Log(x, Ev("forward", "proxy", target, 0)),
                         "proxy", status), "proxy")

---------------------------------------------------------------------------
(* The proxy serving the engine's requests, one goroutine each *)

Serving == vpc = "verify" /\ listening

Running(i, who) ==
    /\ Serving
    /\ reqs[i].pc = "run"
    /\ HandlerAt(reqs[i].pos) = who

\* the exchanges the proxy has received and not yet answered
InFlight == {j \in Slots : reqs[j].pc \in {"run", "unwind"}}

\* the exchanges after a handler has taken the exchange at i to x; when that
\* answers it, it is no longer among the unanswered exchanges of the others
Served(i, x) ==
    IF x.pc = "done"
    THEN [k \in DOMAIN reqs |->
            IF k = i THEN [x EXCEPT !.inFlight = {}]
                     ELSE [reqs[k] EXCEPT !.inFlight = @ \ {i}]]
    ELSE [reqs EXCEPT ![i] = x]

\* the proxy accepts a request (on a connection of its own, after any exchange
\* that is complete) and enters the chain at its outermost handler; inFlight
\* holds the exchanges received before this one and still unanswered
Receive(i) ==
    /\ Serving
    /\ reqs[i].pc \in {"idle", "done"}
    /\ \A j \in Slots : j < i => reqs[j].pc /= "idle"
    /\ \E path \in Paths :
       \E body \in (IF path = providerStatesSetupPath THEN SetupBodies ELSE {""}) :
          reqs' = [reqs EXCEPT ![i] = [pc |-> "run", path |-> path, body |-> body,
                                       pos |-> 1, status |-> 0, log |-> <<>>,
                                       inFlight |-> InFlight]]
    /\ UNCHANGED <<Orchestrator, listening>>

ServeBeforeEach(i) ==
    /\ Running(i, "before")
    /\ \E outcome \in Outcomes :
          reqs' = Served(i, BeforeEachHandler(Log(reqs[i], Ev("enter", "before", "", 0)),
                                              outcome))
    /\ UNCHANGED <<Orchestrator, listening>>

ServeAfterEach(i) ==
    /\ Running(i, "after")
    /\ reqs' = Served(i, AfterEachHandler(Log(reqs[i], Ev("enter", "after", "", 0))))
    /\ UNCHANGED <<Orchestrator, listening>>

ServeStateHandler(i) ==
    /\ Running(i, "state")
    /\ \E outcome \in Outcomes :
          reqs' = Served(i, StateHandler(Log(reqs[i], Ev("enter", "state", "", 0)),
                                         request.StateHandlers, outcome))
    /\ UNCHANGED <<Orchestrator, listening>>

ServeRequestFilter(i) ==
    /\ Running(i, "filter")
    /\ \E callsNext \in BOOLEAN :
          reqs' = Served(i, RequestFilter(Log(reqs[i], Ev("enter", "filter", "", 0)),
                                          callsNext))
    /\ UNCHANGED <<Orchestrator, listening>>

ServeReverseProxy(i) ==
    /\ Running(i, "proxy")
    /\ \E status \in UpstreamStatuses :
          reqs' = Served(i, ReverseProxy(Log(reqs[i], Ev("enter", "proxy", "", 0)),
                                         status))
    /\ UNCHANGED <<Orchestrator, listening>>

\* next.ServeHTTP has returned into AfterEachMiddleware, which runs to its end
ResumeAfterEach(i) ==
    /\ Serving
    /\ reqs[i].pc = "unwind"
    /\ HandlerAt(reqs[i].pos) = "after"
    /\ \E outcome \in Outcomes :
          reqs' = Served(i, Unwind(AfterEachRest(reqs[i], outcome)))
    /\ UNCHANGED <<Orchestrator, listening>>

---------------------------------------------------------------------------

Next ==
    \/ validateConfig
    \/ ParseBaseURL
    \/ AssembleMiddleware
    \/ OptionsNilURL
    \/ StartProxy
    \/ ListenerUp
    \/ ConstructVerificationRequest
    \/ CallWaitForPort
    \/ CallWaitForPortReplaced
    \/ WaitPoll
    \/ WaitTimeout
    \/ PortErrFatal
    \/ InvokeEngine
    \/ EngineReturns
    \/ \E i \in Slots :
          \/ Receive(i)
          \/ ServeBeforeEach(i)
          \/ ServeAfterEach(i)
          \/ ServeStateHandler(i)
          \/ ServeRequestFilter(i)
          \/ ServeReverseProxy(i)
          \/ ResumeAfterEach(i)

Spec == Init /\ [][Next]_vars

---------------------------------------------------------------------------
(* The readiness wait on its own: one request with every middleware, all    *)
(* timeouts of WaitTimeouts.  The select of waitForPort does not block once *)
(* a timer has fired, hence the weak fairness of its two cases.             *)

FullRequests ==
    {req \in Requests :
        /\ req.BeforeEach /\ req.AfterEach /\ req.RequestFilter
        /\ req.StateHandlers = {"A", "B"}
        /\ req.ProviderStatesSetupURL = EmptyString}

InitWait ==
    /\ request \in FullRequests
    /\ clientTimeout \in WaitTimeouts
    /\ vpc = "validateConfig"
    /\ u = "unset"
    /\ m = <<>>
    /\ port = 0
    /\ err = NoError
    /\ listening = FALSE
    /\ verificationRequest = NoRequest
    /\ waiter = IdleWaiter
    /\ portErr = NoError
    /\ engine = [calls |-> 0, arg |-> NoRequest, verdict |-> "none"]
    /\ result = "none"
    /\ reqs = [i \in 1..MaxRequests |-> IdleExchange]

SpecWait ==
    InitWait /\ [][Next]_vars /\ WF_vars(WaitPoll) /\ WF_vars(WaitTimeout)

---------------------------------------------------------------------------
(* The proxy serving several exchanges at once: one request with every      *)
(* middleware, MaxInFlight goroutines.                                      *)

InitServe ==
    /\ request \in FullRequests
    /\ clientTimeout = 100
    /\ vpc = "validateConfig"
    /\ u = "unset"
    /\ m = <<>>
    /\ port = 0
    /\ err = NoError
    /\ listening = FALSE
    /\ verificationRequest = NoRequest
    /\ waiter = IdleWaiter
    /\ portErr = NoError
    /\ engine = [calls |-> 0, arg |-> NoRequest, verdict |-> "none"]
    /\ result = "none"
    /\ reqs = [i \in 1..MaxInFlight |-> IdleExchange]

SpecServe == InitServe /\ [][Next]_vars

---------------------------------------------------------------------------
(* Reading an exchange's log *)

Exchanges == Slots

\* the positions of the log entries of kind ev made by who
At(x, ev, who) == {k \in 1..Len(x.log) : x.log[k].ev = ev /\ x.log[k].who = who}

\* the positions of the state-handler calls
HandlerCalls(x) == {k \in 1..Len(x.log) : x.log[k].ev = "handler"}

\* the positions of the calls of a hook that returned an error
FailedHook(x, who) == {k \in At(x, "hook", who) : x.log[k].arg /= "ok"}

\* the handlers the exchange has entered, in order
Entered(x) ==
    LET enters == SelectSeq(x.log, LAMBDA e : e.ev = "enter")
    IN  [k \in 1..Len(enters) |-> enters[k].who]

Installed(who) == \E k \in 1..Len(m) : m[k] = who

IsSetup(x) == x.pc /= "idle" /\ x.path = providerStatesSetupPath
IsOther(x) == x.pc /= "idle" /\ x.path /= providerStatesSetupPath

\* a setup request the state-handler middleware decodes to a registered state
Matched(x) ==
    /\ IsSetup(x)
    /\ ~Unmarshal(x.body).err
    /\ Unmarshal(x.body).State \in request.StateHandlers

\* a setup request the state-handler middleware decodes to an unregistered state
Unmatched(x) ==
    /\ IsSetup(x)
    /\ Installed("state")
    /\ ~Unmarshal(x.body).err
    /\ Unmarshal(x.body).State \notin request.StateHandlers

\* a setup request the state-handler middleware cannot decode
Undecodable(x) ==
    /\ IsSetup(x)
    /\ Installed("state")
    /\ Unmarshal(x.body).err

\* the matched handler was called exactly once, with the requested state's
\* name, and no other handler was called
DispatchedOnce(x) ==
    /\ Cardinality(HandlerCalls(x)) = 1
    /\ \A k \in HandlerCalls(x) :
          /\ x.log[k].who = Unmarshal(x.body).State
          /\ x.log[k].arg = Unmarshal(x.body).State

HandlerSucceeded(x) == \E k \in HandlerCalls(x) : x.log[k].code = 0

---------------------------------------------------------------------------
(* C1 *)

\* C1 as stated: a completed /__setup/ exchange whose body decodes to a
\* registered state has called that state's handler exactly once with the
\* state's name and no other handler, and when the handler succeeded the
\* response status is 200, whatever the hooks returned.
C1_AsStated ==
    \A i \in Exchanges :
       (reqs[i].pc = "done" /\ Matched(reqs[i])) =>
          /\ DispatchedOnce(reqs[i])
          /\ HandlerSucceeded(reqs[i]) => reqs[i].status = StatusOK

\* C1, amended: a completed /__setup/ exchange whose body decodes to a
\* registered state has called that state's handler exactly once with the
\* state's name and no other handler; when the handler succeeded the response
\* status is 200 if the before-hook did not fail on this request, and 500 (the
\* status the before-hook wrote first) if it did.
C1_MatchedHandlerOnce ==
    \A i \in Exchanges :
       (reqs[i].pc = "done" /\ Matched(reqs[i])) =>
          /\ DispatchedOnce(reqs[i])
          /\ (HandlerSucceeded(reqs[i]) /\ FailedHook(reqs[i], "before") = {})
                => reqs[i].status = StatusOK
          /\ (HandlerSucceeded(reqs[i]) /\ FailedHook(reqs[i], "before") /= {})
                => reqs[i].status = StatusInternalServerError

\* a matched setup exchange, with both hooks installed and a second handler
\* registered, whose handler and before-hook succeeded
C1_Witness ==
    \E i \in Exchanges :
       /\ reqs[i].pc = "done" /\ Matched(reqs[i])
       /\ Installed("before") /\ Installed("after")
       /\ Cardinality(request.StateHandlers) > 1
       /\ At(reqs[i], "hook", "before") /= {}
       /\ HandlerSucceeded(reqs[i])
       /\ reqs[i].status = StatusOK

---------------------------------------------------------------------------
(* C2 *)

---------------------------------------------------------------------------
(* C3 *)

---------------------------------------------------------------------------
(* C4 *)

\* C4: with both hooks installed, an exchange whose path is not /__setup/
\* never calls the before-hook and calls the after-hook at most once; the
\* after-hook is called only after the downstream handler has written its
\* response and returned, and nothing downstream runs after it; a completed
\* exchange has called the after-hook exactly once.
C4_AfterHookOnceAfterDownstream ==
    \A i \in Exchanges :
       (IsOther(reqs[i]) /\ Installed("before") /\ Installed("after")) =>
          LET x == reqs[i]
              after == At(x, "hook", "after")
          IN  /\ At(x, "hook", "before") = {}
              /\ Cardinality(after) <= 1
              /\ x.pc = "done" => Cardinality(after) = 1
              /\ \A k \in after :
                    /\ \E r \in 1..Len(x.log) :
                          r < k /\ x.log[r].ev = "return"
                    /\ \E w \in 1..Len(x.log) :
                          w < k /\ x.log[w].ev = "write" /\ x.log[w].who /= "after"
                    /\ \A j \in 1..Len(x.log) :
                          x.log[j].ev \in {"enter", "forward", "return", "handler"}
                             => j < k

\* a non-setup exchange through the full chain that reached the reverse proxy
\* and has called the after-hook
C4_Witness ==
    \E i \in Exchanges :
       /\ reqs[i].pc = "done" /\ IsOther(reqs[i])
       /\ Len(m) = 4
       /\ At(reqs[i], "enter", "proxy") /= {}
       /\ At(reqs[i], "hook", "after") /= {}

---------------------------------------------------------------------------
(* C5 *)

\* C5: with both hooks and the state-handler middleware installed, a
\* /__setup/ exchange that has reached the state-handler middleware has called
\* the before-hook exactly once, before the state-handler middleware was
\* entered and before any handler was called, and it never calls the
\* after-hook.
C5_BeforeHookOnceBeforeDispatch ==
    \A i \in Exchanges :
       (IsSetup(reqs[i]) /\ Installed("before") /\ Installed("after")
          /\ Installed("state")) =>
          LET x == reqs[i]
              before == At(x, "hook", "before")
          IN  /\ At(x, "hook", "after") = {}
              /\ Cardinality(before) <= 1
              /\ (x.pc = "done" \/ At(x, "enter", "state") /= {})
                    => Cardinality(before) = 1
              /\ \A k \in before :
                    \A d \in At(x, "enter", "state") \cup HandlerCalls(x) : k < d

\* a setup exchange through the full chain whose handler was called
C5_Witness ==
    \E i \in Exchanges :
       /\ reqs[i].pc = "done" /\ IsSetup(reqs[i])
       /\ Installed("before") /\ Installed("after") /\ Installed("state")
       /\ HandlerCalls(reqs[i]) /= {}
       /\ At(reqs[i], "hook", "before") /= {}

---------------------------------------------------------------------------
(* C6 *)

\* C6 as stated: when waitForPort has timed out, the engine is never invoked
\* and, once verifyProviderRaw is past its check of portErr, it has returned
\* the timeout error to its caller.
C6_AsStated ==
    portErr = TimeoutError =>
       /\ engine.calls = 0
       /\ vpc /= "checkPort" => (vpc = "returned" /\ result = TimeoutError)

---------------------------------------------------------------------------
(* C7 *)

\* C7: the state-setup URL handed to the engine is the proxy's
\* http://localhost:{port}/__setup/ when request.ProviderStatesSetupURL is
\* empty and a state handler is registered, and request.ProviderStatesSetupURL
\* unchanged in every other case (so also for a URL given with no handlers).
C7_SetupURLHandedOver ==
    engine.calls > 0 =>
       LET given  == request.ProviderStatesSetupURL
           handed == engine.arg.ProviderStatesSetupURL
       IN  /\ (given = EmptyString /\ request.StateHandlers /= {})
                 => handed = <<"http://localhost:", port, "/__setup/">>
           /\ (given /= EmptyString \/ request.StateHandlers = {})
                 => handed = given
           /\ (given /= EmptyString /\ request.StateHandlers = {})
                 => handed = LegacySetupURL

\* the engine was handed the proxy's setup URL for a bound port
C7_Witness ==
    /\ engine.calls > 0
    /\ port \in FreePorts
    /\ request.ProviderStatesSetupURL = EmptyString
    /\ Cardinality(request.StateHandlers) = 1
    /\ engine.arg.ProviderStatesSetupURL = ProxySetupURL(port)

---------------------------------------------------------------------------
(* C8 *)

\* C8 as stated: in every run, whatever is configured, no /__setup/ exchange
\* enters the innermost handler, the reverse proxy.
C8_AsStated ==
    \A i \in Exchanges :
       IsSetup(reqs[i]) => At(reqs[i], "enter", "proxy") = {}

\* C8, amended: in every run with at least one state handler registered, no
\* /__setup/ exchange goes past the state-handler middleware: neither the
\* request filter nor the reverse proxy is entered, nothing is forwarded, and
\* a completed exchange has ended in the state-handler middleware.
C8_SetupEndsAtStateHandler ==
    \A i \in Exchanges :
       (IsSetup(reqs[i]) /\ request.StateHandlers /= {}) =>
          /\ At(reqs[i], "enter", "proxy") = {}
          /\ At(reqs[i], "enter", "filter") = {}
          /\ At(reqs[i], "forward", "proxy") = {}
          /\ reqs[i].pc = "done" => At(reqs[i], "return", "state") /= {}

\* a completed setup exchange with one handler registered and a request
\* filter installed behind the state-handler middleware
C8_Witness ==
    \E i \in Exchanges :
       /\ reqs[i].pc = "done" /\ IsSetup(reqs[i])
       /\ Cardinality(request.StateHandlers) = 1
       /\ request.RequestFilter
       /\ At(reqs[i], "return", "state") /= {}

---------------------------------------------------------------------------
(* C9 *)

Present(who) ==
    CASE who = "before" -> request.BeforeEach
      [] who = "after"  -> request.AfterEach
      [] who = "state"  -> request.StateHandlers /= {}
      [] who = "filter" -> request.RequestFilter

IsPrefix(a, b) == Len(a) <= Len(b) /\ \A k \in 1..Len(a) : a[k] = b[k]

\* C9: once built, the middleware list holds exactly the components present
\* in the request, each once, in the order before-hook, after-hook,
\* state-handler, request filter; and an exchange enters the handlers in that
\* order, the reverse proxy last.
C9_MiddlewareList ==
    vpc \notin {"validateConfig", "parse", "build"} =>
       /\ m = SelectSeq(<<"before", "after", "state", "filter">>, Present)
       /\ \A i \in Exchanges : IsPrefix(Entered(reqs[i]), m \o <<"proxy">>)

\* an exchange that went through all four middlewares to the reverse proxy
C9_Witness ==
    /\ vpc = "verify"
    /\ Len(m) = 4
    /\ \E i \in Exchanges :
          /\ reqs[i].pc = "done"
          /\ Entered(reqs[i]) = <<"before", "after", "state", "filter", "proxy">>

---------------------------------------------------------------------------
(* C10 *)

\* C10 as stated: once url.Parse or proxy.HTTPReverseProxy has returned an
\* error, the readiness wait is not begun and the engine is never invoked.
C10_AsStated ==
    err /= NoError =>
       /\ vpc /= "waiting"
       /\ engine.calls = 0

---------------------------------------------------------------------------
(* C11 *)

\* an exchange on which something inside the proxy failed: a hook or a state
\* handler returned an error, or the setup body could not be decoded
HandlerFailed(x) == \E k \in HandlerCalls(x) : x.log[k].code /= 0

InternalFailure(x) ==
    \/ FailedHook(x, "before") /= {}
    \/ FailedHook(x, "after") /= {}
    \/ HandlerFailed(x)
    \/ (x.pc = "done" /\ Undecodable(x))

\* C11: once the readiness wait has succeeded and verifyProviderRaw has gone
\* past its check, the engine has been invoked exactly once, on the constructed
\* request, and when verifyProviderRaw has returned, the value returned is the
\* engine's verdict, nil or its error; an exchange on which a hook or a state
\* handler failed leaves the run in the engine's hands (not ended, not
\* panicked) and the value returned the engine's.
C11_EngineResultReturned ==
    /\ engine.calls <= 1
    /\ (portErr = NoError /\ vpc \in {"verify", "returned"}) <=> engine.calls = 1
    /\ engine.calls = 1 => engine.arg = verificationRequest
    /\ vpc = "returned" => (result = engine.verdict /\ result \in Verdicts)
    /\ vpc /= "returned" => result = "none"
    /\ \A i \in Exchanges :
          InternalFailure(reqs[i]) =>
             /\ vpc \in {"verify", "returned"}
             /\ (vpc = "verify" /\ InFlight = {}) => ENABLED EngineReturns
             /\ vpc = "returned" => result = engine.verdict

\* verifyProviderRaw has returned the engine's success although a hook failed
\* on an exchange of the run
C11_Witness ==
    /\ vpc = "returned"
    /\ engine.calls = 1
    /\ result = NoError
    /\ \E i \in Exchanges :
          reqs[i].pc = "done" /\ FailedHook(reqs[i], "after") /= {}

---------------------------------------------------------------------------
(* C12 *)

\* C12 as stated: the state-setup URL handed to the engine is the proxy's
\* http://localhost:{port}/__setup/ whenever state handlers are registered or
\* no legacy URL is given, and the legacy URL only when it is given and no
\* state handler is registered.
C12_AsStated ==
    engine.calls > 0 =>
       LET given  == request.ProviderStatesSetupURL
           handed == engine.arg.ProviderStatesSetupURL
       IN  /\ (request.StateHandlers /= {} \/ given = EmptyString)
                 => handed = <<"http://localhost:", port, "/__setup/">>
           /\ (given /= EmptyString /\ request.StateHandlers = {})
                 => handed = given

\* C12, amended: the state-setup URL handed to the engine is the proxy's
\* http://localhost:{port}/__setup/ only when no legacy URL is given and state
\* handlers are registered; a legacy URL that is given is handed over
\* unmodified whether or not state handlers are registered, and with neither
\* a legacy URL nor state handlers the URL handed over is empty.
C12_LegacyURLWins ==
    engine.calls > 0 =>
       engine.arg.ProviderStatesSetupURL =
          CASE request.ProviderStatesSetupURL /= EmptyString
                  -> request.ProviderStatesSetupURL
            [] request.ProviderStatesSetupURL = EmptyString
                  /\ request.StateHandlers /= {}
                  -> <<"http://localhost:", port, "/__setup/">>
            [] OTHER -> EmptyString

\* the engine was handed the legacy URL although state handlers are registered
C12_Witness ==
    /\ engine.calls > 0
    /\ request.ProviderStatesSetupURL = LegacySetupURL
    /\ request.StateHandlers /= {}
    /\ Installed("state")
    /\ engine.arg.ProviderStatesSetupURL = LegacySetupURL

---------------------------------------------------------------------------
(* C13 *)

\* C13 as stated: a completed exchange on which the before-hook, the
\* after-hook or a state handler failed, or whose setup body could not be
\* decoded, has the response status 500.
C13_AsStated ==
    \A i \in Exchanges :
       (reqs[i].pc = "done" /\ InternalFailure(reqs[i]))
          => reqs[i].status = StatusInternalServerError

---------------------------------------------------------------------------
(* C14 *)

\* C14: on a /__setup/ exchange on which the before-hook failed, the
\* before-hook middleware has written 500 and gone on to the next handler,
\* once; when the exchange is complete, the handler next to the before-hook
\* middleware was entered exactly once, a requested state that is registered
\* had its handler called exactly once, and the response status is 500
\* whatever the handler returned.
C14_BeforeHookFailureContinues ==
    \A i \in Exchanges :
       (IsSetup(reqs[i]) /\ FailedHook(reqs[i], "before") /= {}) =>
          LET x == reqs[i]
              b == CHOOSE k \in 1..Len(m) : m[k] = "before"
              nextHandler == HandlerAt(b + 1)
          IN  /\ \E w \in 1..Len(x.log) :
                    /\ x.log[w] = Ev("write", "before", "", StatusInternalServerError)
                    /\ \A k \in 1..Len(x.log) : x.log[k].ev = "write" => w <= k
              /\ At(x, "return", "before") = {}
              /\ x.pc = "run" => x.pos > b
              /\ Cardinality(At(x, "enter", nextHandler)) <= 1
              /\ x.pc = "done" =>
                    /\ Cardinality(At(x, "enter", nextHandler)) = 1
                    /\ Matched(x) => DispatchedOnce(x)
                    /\ x.status = StatusInternalServerError

\* a setup exchange whose before-hook failed and whose matched handler then
\* succeeded and wrote 200
C14_Witness ==
    \E i \in Exchanges :
       /\ reqs[i].pc = "done" /\ Matched(reqs[i])
       /\ FailedHook(reqs[i], "before") /= {}
       /\ HandlerSucceeded(reqs[i])
       /\ \E k \in 1..Len(reqs[i].log) :
             reqs[i].log[k] = Ev("write", "state", "", StatusOK)
       /\ reqs[i].status = StatusInternalServerError

---------------------------------------------------------------------------
(* C15 *)

\* C15: a /__setup/ exchange whose matched state handler failed has left the
\* state-handler middleware with the response status 500; no 200 was written on it, neither the request
\* filter nor the reverse proxy was entered and nothing was forwarded; the
\* run has not ended, and once the exchange is complete the proxy can receive
\* the engine's next request on the same terms as any other.
C15_HandlerFailureStops ==
    \A i \in Exchanges :
       (IsSetup(reqs[i]) /\ HandlerFailed(reqs[i])) =>
          LET x == reqs[i]
          IN  /\ x.pc \in {"unwind", "done"}
              /\ x.status = StatusInternalServerError
              /\ \A k \in 1..Len(x.log) :
                    x.log[k].ev = "write" => x.log[k].code /= StatusOK
              /\ At(x, "enter", "filter") = {}
              /\ At(x, "enter", "proxy") = {}
              /\ At(x, "forward", "proxy") = {}
              /\ x.log[Len(x.log)] = Ev("return", "state", "", 0)
              /\ vpc \in {"verify", "returned"}
              /\ (vpc = "verify" /\ x.pc = "done") => ENABLED Receive(i)

\* a setup exchange whose matched handler failed, in a chain with a request
\* filter behind the state-handler middleware and no before-hook failure
C15_Witness ==
    \E i \in Exchanges :
       /\ reqs[i].pc = "done" /\ Matched(reqs[i])
       /\ HandlerFailed(reqs[i])
       /\ Installed("filter")
       /\ FailedHook(reqs[i], "before") = {}
       /\ reqs[i].status = StatusInternalServerError

---------------------------------------------------------------------------
(* C16 *)

\* the exchange at i was received before the exchange at j and both are
\* still unanswered
ReceivedBefore(i, j) == i \in reqs[j].inFlight

\* the exchange at i has been fully processed as a setup call: the before-hook
\* was called on it, once, and the state-handler middleware has dispatched
\* and returned, in this order
FullyProcessed(x) ==
    /\ Cardinality(At(x, "hook", "before")) = 1
    /\ Cardinality(At(x, "return", "state")) = 1
    /\ Matched(x) => DispatchedOnce(x)
    /\ \A h \in At(x, "hook", "before") \cup HandlerCalls(x) :
          \A r \in At(x, "return", "state") : h < r

\* C16 as stated: whenever a /__setup/ exchange was received before a
\* non-setup exchange, the non-setup exchange has not entered the reverse
\* proxy as long as the state-handler middleware has not returned on the
\* setup exchange, however the proxy's goroutines interleave.
C16_AsStated ==
    \A i, j \in Exchanges :
       (ReceivedBefore(i, j) /\ IsSetup(reqs[i]) /\ IsOther(reqs[j])
          /\ At(reqs[i], "return", "state") = {})
          => At(reqs[j], "enter", "proxy") = {}

\* C16, amended: a /__setup/ exchange is answered only after the before-hook
\* has been called on it, once, and the state-handler middleware has
\* dispatched and returned, and an answered exchange takes no further step;
\* so when the proxy receives a request after it has answered the setup call
\* (the setup call is not among the unanswered exchanges at the receipt), the
\* setup call is fully processed before that request enters the chain, and so
\* before it reaches the reverse proxy.  The proxy does not order requests
\* that are in flight at the same time.
C16_SetupAnsweredAfterDispatch ==
    /\ [](\A i \in Exchanges :
            (reqs[i].pc = "done" /\ IsSetup(reqs[i])) => FullyProcessed(reqs[i]))
    /\ [][\A i, j \in Exchanges :
            (i /= j /\ reqs[j].pc \notin {"run", "unwind"} /\ reqs'[j].pc = "run"
               /\ IsSetup(reqs[i]) /\ i \notin reqs'[j].inFlight)
               => (reqs[i].pc = "done" /\ FullyProcessed(reqs[i])
                     /\ reqs'[i] = reqs[i])]_vars
    /\ [][\A i \in Exchanges :
            reqs[i].pc = "done" =>
               \/ reqs'[i] = reqs[i]
               \/ (reqs'[i].pc = "run" /\ reqs'[i].log = <<>>)]_vars

\* an interaction request in the reverse proxy, received when nothing was
\* unanswered, next to a setup call that is answered and whose handler was
\* called
C16_Witness ==
    \E i, j \in Exchanges :
       /\ IsSetup(reqs[i]) /\ reqs[i].pc = "done"
       /\ HandlerCalls(reqs[i]) /= {}
       /\ IsOther(reqs[j]) /\ reqs[j].pc = "run"
       /\ reqs[j].inFlight = {}
       /\ InFlight = {j}
       /\ HandlerAt(reqs[j].pos) = "proxy"

---------------------------------------------------------------------------
(* C17 *)

\* C17 as stated: when the listener was accepting connections at the call of
\* waitForPort, waitForPort returns nil, after exactly one dial, 50ms after
\* the call, whatever the timeout.
C17_AsStated ==
    (waiter.pc = "returned" /\ waiter.live) =>
       /\ portErr = NoError
       /\ waiter.dials = 1
       /\ waiter.elapsed = PollInterval

\* C17, amended: when the listener was accepting connections at the call of
\* waitForPort and the timeout is longer than the 50ms poll interval,
\* waitForPort returns nil after exactly one dial, 50ms after the call; no
\* dial is made at time zero.  With a timeout shorter than 50ms it returns the
\* timeout error without having dialled, and with a timeout of exactly 50ms
\* either of the two.
C17_LiveListenerFirstPoll ==
    /\ waiter.dials > 0 => waiter.elapsed >= PollInterval
    /\ (waiter.pc = "returned" /\ waiter.live) =>
          LET success == /\ portErr = NoError
                         /\ waiter.dials = 1
                         /\ waiter.elapsed = PollInterval
              timedOut == /\ portErr = TimeoutError
                          /\ waiter.dials = 0
                          /\ waiter.elapsed = clientTimeout
          IN  /\ clientTimeout > PollInterval => success
              /\ clientTimeout < PollInterval => timedOut
              /\ clientTimeout = PollInterval => (success \/ timedOut)

\* waitForPort has returned nil at its first poll, the listener having been
\* up at the call, with a timeout of 100ms
C17_Witness ==
    /\ waiter.pc = "returned"
    /\ waiter.live
    /\ clientTimeout = 100
    /\ portErr = NoError
    /\ waiter.dials = 1

---------------------------------------------------------------------------
(* C18 *)

\* C18: waitForPort, once called, returns; it returns nil only in the step of
\* a dial that succeeded, and the timeout error (with its message) only when
\* the time since the call has reached the timeout; when the listener never
\* accepts a connection it returns the timeout error; and once it has
\* returned, no further dial is made.
C18_WaitForPortTerminates ==
    /\ [](waiter.pc = "returned" =>
            /\ portErr \in {NoError, TimeoutError}
            /\ portErr = NoError => (waiter.dials >= 1 /\ Dial(port))
            /\ portErr = NoError => waiter.text = <<>>
            /\ portErr = TimeoutError =>
                  /\ waiter.elapsed >= clientTimeout
                  /\ waiter.text =
                        <<"Expected server to start < ", clientTimeout, ". ",
                          "Timed out waiting for http verification proxy on port ",
                          port, " - check for errors">>)
    /\ [][(waiter.pc = "select" /\ waiter'.pc = "returned" /\ portErr' = NoError)
             => (waiter'.dials = waiter.dials + 1 /\ Dial(port))]_vars
    /\ [][waiter.pc = "returned" => waiter' \in {waiter, IdleWaiter}]_vars
    /\ (vpc = "waiting") ~> (vpc = "checkPort" /\ waiter.pc = "returned")
    /\ (vpc = "waiting") ~> (portErr = TimeoutError \/ listening)

\* waitForPort has returned the timeout error after dialling in vain
C18_Witness ==
    /\ waiter.pc = "returned"
    /\ portErr = TimeoutError
    /\ waiter.dials >= 1
    /\ ~listening

---------------------------------------------------------------------------
(* C19 *)

---------------------------------------------------------------------------
(* C20 *)

\* the calls of a hook on the exchanges being served, each by its exchange
\* and its place in that exchange's log
HookCalls(who) ==
    UNION {{<<i, k>> : k \in At(reqs[i], "hook", who)} : i \in Exchanges}

\* C20: with all four middlewares installed and any number of exchanges in
\* flight, the before-hook calls made are as many as the /__setup/ exchanges
\* that have gone past the head of the chain (all of them once answered), the
\* after-hook calls made are as many as the non-setup exchanges answered, a
\* non-setup exchange whose downstream handler has returned is either
\* answered or at the after-hook, no exchange enters the reverse proxy more
\* than once, and no step while the engine runs changes the middleware list
\* or the request with its StateHandlers.
C20_HookCountsUnderConcurrency ==
    /\ [](Len(m) = 4 =>
            /\ Cardinality(HookCalls("before")) =
                  Cardinality({i \in Exchanges :
                                  IsSetup(reqs[i])
                                     /\ ~(reqs[i].pc = "run" /\ reqs[i].pos = 1)})
            /\ Cardinality(HookCalls("after")) =
                  Cardinality({i \in Exchanges :
                                  IsOther(reqs[i]) /\ reqs[i].pc = "done"})
            /\ \A i \in Exchanges :
                  /\ Cardinality(At(reqs[i], "enter", "proxy")) <= 1
                  /\ (IsOther(reqs[i]) /\ \E k \in 1..Len(reqs[i].log) :
                                             reqs[i].log[k].ev = "return")
                        => \/ reqs[i].pc = "done"
                           \/ (reqs[i].pc = "unwind"
                                 /\ HandlerAt(reqs[i].pos) = "after"))
    /\ [][vpc = "verify" => (m' = m /\ request' = request)]_vars

\* two exchanges in flight at the same time, a setup call on which the
\* before-hook was called and an interaction that has been through the
\* reverse proxy, both about to return into the after-hook middleware
C20_Witness ==
    \E i, j \in Exchanges :
       /\ Len(m) = 4
       /\ ReceivedBefore(i, j)
       /\ IsSetup(reqs[i]) /\ IsOther(reqs[j])
       /\ reqs[i].pc = "unwind"
       /\ reqs[j].pc = "unwind"
       /\ At(reqs[i], "hook", "before") /= {}
       /\ At(reqs[j], "enter", "proxy") /= {}

===========================================================================
